---------------------------- MODULE Spec2Model ----------------------------
(***************************************************************************)
(* Model of the LXD storage core:                                          *)
(*   - lxd/storage/drivers/volume.go : the Volume entity and MountTask     *)
(*   - lxd/storage (backend loader)  : CreatePool, GetPoolByName,          *)
(*                                     GetPoolByInstanceName               *)
(* Volume names are sequences of one-character strings so that the string  *)
(* operations of the code (splitting on "/" or "_", Sprintf) are computed  *)
(* rather than assumed.                                                    *)
(***************************************************************************)
EXTENDS Integers, Sequences, FiniteSets, TLC

(***************************************************************************)
(* Bounds of the model.                                                    *)
(***************************************************************************)
\* Number of goroutines that each make one MountTask call.
NumCallers == 2

Callers == 1..NumCallers

NoCaller == 0

(***************************************************************************)
(* Volume types (volume.go:11-24).                                         *)
(***************************************************************************)
VolumeTypeImage == "images"

VolumeTypeCustom == "custom"

VolumeTypeContainer == "containers"

VolumeTypeVM == "virtual-machines"

VolumeTypes ==
    {VolumeTypeImage, VolumeTypeCustom, VolumeTypeContainer, VolumeTypeVM}

ContentTypeFS == "fs"

ContentTypeBlock == "block"

(***************************************************************************)
(* Strings.                                                                *)
(***************************************************************************)
\* The Go string held in a sequence of characters.
RECURSIVE Str(_)
Str(s) == IF s = <<>> THEN "" ELSE Head(s) \o Str(Tail(s))

\* Index of the first occurrence of character c in s, 0 when absent.
IndexOf(s, c) ==
    IF \E i \in 1..Len(s) : s[i] = c
    THEN CHOOSE i \in 1..Len(s) : s[i] = c /\ \A j \in 1..(i-1) : s[j] # c
    ELSE 0

\* strings.SplitN(s, sep, 2) for a one-character separator.
SplitN2(s, sep) ==
    LET i == IndexOf(s, sep)
    IN  IF i = 0 THEN <<s>>
        ELSE <<SubSeq(s, 1, i-1), SubSeq(s, i+1, Len(s))>>

SnapshotDelimiter == "/"

\* shared.ContainerGetParentAndSnapshotName
ContainerGetParentAndSnapshotName(name) ==
    LET fields == SplitN2(name, SnapshotDelimiter)
    IN  IF Len(fields) = 1
        THEN [parentName |-> name, snapName |-> <<>>, isSnap |-> FALSE]
        ELSE [parentName |-> fields[1], snapName |-> fields[2], isSnap |-> TRUE]

\* drivers.GetSnapshotVolumeName
GetSnapshotVolumeName(parentName, snapshotName) ==
    parentName \o <<SnapshotDelimiter>> \o snapshotName

(***************************************************************************)
(* The Volume value.                                                       *)
(***************************************************************************)
NewVolume(driver, poolName, volType, contentType, volName, volConfig) ==
    [name        |-> volName,
     pool        |-> poolName,
     volType     |-> volType,
     contentType |-> contentType,
     config      |-> volConfig,
     driver      |-> driver]

\* drivers.GetVolumeMountPath: <var>/storage-pools/<pool>/<type>[-snapshots]/<name>
GetVolumeMountPath(poolName, volType, volName) ==
    IF ContainerGetParentAndSnapshotName(volName).isSnap
    THEN "storage-pools/" \o poolName \o "/" \o volType \o "-snapshots/" \o Str(volName)
    ELSE "storage-pools/" \o poolName \o "/" \o volType \o "/" \o Str(volName)

MountPath(v) == GetVolumeMountPath(v.pool, v.volType, v.name)

\* Variant: the mount lock is named after the pool, the type and the name.
mountLockIDPerPool(v) == "mount/" \o v.pool \o "/" \o v.volType \o "/" \o Str(v.name)

\* Variant: the mount lock named after the pool instead of the volume type.
mountLockIDByPool(v) == "mount/" \o v.pool \o "/" \o Str(v.name)

\* fmt.Sprintf("mount/%s/%s", v.volType, v.name)
mountLockID(v) == "mount/" \o v.volType \o "/" \o Str(v.name)

\* Variant: the umount lock named after the volume name only.
umountLockIDByName(v) == "umount/" \o Str(v.name)

\* fmt.Sprintf("umount/%s/%s", v.volType, v.name)
umountLockID(v) == "umount/" \o v.volType \o "/" \o Str(v.name)

(***************************************************************************)
(* The volumes the callers work on: a container volume, the volume of the  *)
(* same type and name in another pool, and a snapshot of a custom volume.  *)
(***************************************************************************)
PoolNames == {"p1", "p2"}

Volumes ==
    { NewVolume("p1", "p1", VolumeTypeContainer, ContentTypeFS, <<"a">>, <<>>),
      NewVolume("p2", "p2", VolumeTypeContainer, ContentTypeFS, <<"a">>, <<>>),
      NewVolume("p1", "p1", VolumeTypeCustom, ContentTypeFS, <<"a", "/", "s">>, <<>>) }

NoVolume == [name |-> <<>>]

LockIDs == { mountLockID(v) : v \in Volumes } \cup { umountLockID(v) : v \in Volumes }

(***************************************************************************)
(* State of the concurrent MountTask calls.                                *)
(***************************************************************************)
VARIABLES
    pc,          \* position of each caller inside MountTask
    vol,         \* the Volume each caller invoked MountTask on
    locks,       \* the lock registry: lock identifier -> holder
    refs,        \* the drivers' mount state of every volume
    driverKind,  \* which driver implementation backs the pools
    ourMount,    \* the ourMount local of each call
    err,         \* the err local of each call (result of the mount call)
    taskErr,     \* what the task returned to the call
    deferred,    \* whether the call registered the deferred unmount
    umountErr,   \* what the driver's unmount returned to the call
    ret,         \* the value MountTask returned
    trace        \* what each call did, in order

mtVars ==
    <<pc, vol, locks, refs, driverKind, ourMount, err, taskErr, deferred,
      umountErr, ret, trace>>

(***************************************************************************)
(* State of the pool loader.                                               *)
(***************************************************************************)
VARIABLES
    MockBackend,  \* the package variable MockBackend
    dbPools,      \* catalog: pool name -> pool row
    dbInstances,  \* catalog: (project, instance) -> pool name
    result        \* what the last loader call did and returned

poolVars == <<MockBackend, dbPools, dbInstances, result>>

(***************************************************************************)
(* State of the operations on single volumes.                              *)
(***************************************************************************)
VARIABLES
    fs,          \* the directories under the storage-pools directory: path -> mode
    dbVolumes,   \* catalog: the volume rows
    volResult    \* what the last volume operation did and returned

volVars == <<fs, dbVolumes, volResult>>

vars == <<mtVars, poolVars, volVars>>

Nil == "nil"

ErrMount == "mount failed"

ErrUnmount == "unmount failed"

ErrTask == "task failed"

NotReturned == "not returned"

\* Driver implementations: one that counts its holders, one that looks at
\* the mount point only.
DriverKinds == {"refcount", "mountpoint"}

Ev(e, a) == [ev |-> e, arg |-> a]

Mounted(k) == refs[k] > 0

(***************************************************************************)
(* The lock registry: lock(id) blocks until the named lock is free and     *)
(* returns the function that releases it.                                  *)
(***************************************************************************)
LockFree(id) == locks[id] = NoCaller

lock(id, p) == [locks EXCEPT ![id] = p]

unlock(id) == [locks EXCEPT ![id] = NoCaller]

(***************************************************************************)
(* The driver: MountVolume / MountVolumeSnapshot and their unmounts.       *)
(* ourMount is true exactly when the call took the volume from unmounted   *)
(* to mounted.                                                             *)
(***************************************************************************)
DriverMount(kind, n) ==
    [ourMount |-> (n = 0),
     refs     |-> IF kind = "refcount" THEN n + 1 ELSE 1]

DriverUnmount(kind, n) ==
    [ourUnmount |-> (n = 1) \/ (kind = "mountpoint" /\ n > 0),
     refs       |-> IF kind = "refcount" THEN (IF n > 0 THEN n - 1 ELSE 0) ELSE 0]

\* The driver operation MountTask calls to mount v, with its arguments.
MountCall(v) ==
    LET s == ContainerGetParentAndSnapshotName(v.name)
    IN  IF s.isSnap
        THEN Ev("MountVolumeSnapshot", <<v.volType, Str(s.parentName), Str(s.snapName)>>)
        ELSE Ev("MountVolume", <<v.volType, Str(v.name)>>)

\* Variant: the deferred function always calls the plain unmount.
UnmountCallPlain(v) == Ev("UnmountVolume", <<v.volType, Str(v.name)>>)

\* The driver operation the deferred function calls to unmount v.
UnmountCall(v) ==
    LET s == ContainerGetParentAndSnapshotName(v.name)
    IN  IF s.isSnap
        THEN Ev("UnmountVolumeSnapshot", <<v.volType, Str(s.parentName), Str(s.snapName)>>)
        ELSE Ev("UnmountVolume", <<v.volType, Str(v.name)>>)

\* The volume a driver call refers to.
CallKey(v, call) ==
    IF Len(call.arg) = 3
    THEN <<v.pool, call.arg[1], call.arg[2] \o SnapshotDelimiter \o call.arg[3]>>
    ELSE <<v.pool, call.arg[1], call.arg[2]>>

StrKey(v) == <<v.pool, v.volType, Str(v.name)>>

StrKeys == { StrKey(v) : v \in Volumes }

(***************************************************************************)
(* MountTask, one action per step of a call.                               *)
(***************************************************************************)
\* volume.go:102-106  a goroutine calls v.MountTask(task, op)
Call(p) ==
    /\ pc[p] = "idle"
    /\ \E v \in Volumes : vol' = [vol EXCEPT ![p] = v]
    /\ pc' = [pc EXCEPT ![p] = "lockMount"]
    /\ trace' = [trace EXCEPT ![p] = Append(@, Ev("call", <<>>))]
    /\ UNCHANGED <<locks, refs, driverKind, ourMount, err, taskErr, deferred, umountErr,
                 ret, poolVars, volVars>>

\* Variant: the mount decision takes the umount lock, which the success path
\* never releases.
LockMountTakingUmountLock(p) ==
    /\ pc[p] = "lockMount"
    /\ LockFree(umountLockID(vol[p]))
    /\ locks' = lock(umountLockID(vol[p]), p)
    /\ pc' = [pc EXCEPT ![p] = "mounting"]
    /\ trace' = [trace EXCEPT ![p] = Append(@, Ev("lock", <<umountLockID(vol[p])>>))]
    /\ UNCHANGED <<vol, refs, driverKind, ourMount, err, taskErr, deferred, umountErr,
                 ret, poolVars, volVars>>

\* volume.go:111,113 / 129,131  unlock := lock(mountLockID); enter the mount call
LockMount(p) ==
    /\ pc[p] = "lockMount"
    /\ LockFree(mountLockID(vol[p]))
    /\ locks' = lock(mountLockID(vol[p]), p)
    /\ pc' = [pc EXCEPT ![p] = "mounting"]
    /\ trace' = [trace EXCEPT ![p] = Append(@, Ev("lock", <<mountLockID(vol[p])>>))]
    /\ UNCHANGED <<vol, refs, driverKind, ourMount, err, taskErr, deferred, umountErr,
                 ret, poolVars, volVars>>

\* volume.go:113 / 131  the driver's mount call returns (ourMount, nil)
MountOK(p) ==
    /\ pc[p] = "mounting"
    /\ LET call == MountCall(vol[p])
           k    == CallKey(vol[p], call)
           r    == DriverMount(driverKind, refs[k])
       IN  /\ refs' = [refs EXCEPT ![k] = r.refs]
           /\ ourMount' = [ourMount EXCEPT ![p] = r.ourMount]
           /\ trace' = [trace EXCEPT ![p] = Append(@, call)]
    /\ err' = [err EXCEPT ![p] = Nil]
    /\ pc' = [pc EXCEPT ![p] = "mountReturned"]
    /\ UNCHANGED <<taskErr, vol, locks, driverKind, deferred, umountErr, ret, poolVars, volVars>>

\* volume.go:113 / 131  the driver's mount call returns (false, error)
MountFail(p) ==
    /\ pc[p] = "mounting"
    /\ trace' = [trace EXCEPT ![p] = Append(@, MountCall(vol[p]))]
    /\ ourMount' = [ourMount EXCEPT ![p] = FALSE]
    /\ err' = [err EXCEPT ![p] = ErrMount]
    /\ pc' = [pc EXCEPT ![p] = "mountReturned"]
    /\ UNCHANGED <<taskErr, vol, locks, refs, driverKind, deferred, umountErr, ret, poolVars, volVars>>

\* Variant: the error path returns without releasing the mount lock.
MountErrReturnNoUnlock(p) ==
    /\ pc[p] = "mountReturned"
    /\ err[p] # Nil
    /\ ret' = [ret EXCEPT ![p] = err[p]]
    /\ pc' = [pc EXCEPT ![p] = "returned"]
    /\ trace' = [trace EXCEPT ![p] = Append(@, Ev("return", <<err[p]>>))]
    /\ UNCHANGED <<vol, locks, refs, driverKind, ourMount, err, taskErr, deferred,
                 umountErr, poolVars, volVars>>

\* volume.go:114-117 / 132-135  if err != nil { unlock(); return err }
MountErrReturn(p) ==
    /\ pc[p] = "mountReturned"
    /\ err[p] # Nil
    /\ locks' = unlock(mountLockID(vol[p]))
    /\ ret' = [ret EXCEPT ![p] = err[p]]
    /\ pc' = [pc EXCEPT ![p] = "returned"]
    /\ trace' = [trace EXCEPT ![p] =
                    @ \o <<Ev("unlock", <<mountLockID(vol[p])>>), Ev("return", <<err[p]>>)>>]
    /\ UNCHANGED <<vol, refs, driverKind, ourMount, err, taskErr, deferred, umountErr, poolVars, volVars>>

\* Variant: the unmount is deferred whatever the mount call reported.
RegisterDeferAlways(p) == TRUE

\* volume.go:121 / 139  if ourMount { defer ... }
RegisterDefer(p) == ourMount[p]

\* Variant: the mount lock is kept while the task runs.
UnlockMountAfterTask(p) ==
    /\ pc[p] = "mountReturned"
    /\ err[p] = Nil
    /\ deferred' = [deferred EXCEPT ![p] = RegisterDefer(p)]
    /\ pc' = [pc EXCEPT ![p] = "callTask"]
    /\ UNCHANGED <<vol, locks, trace, refs, driverKind, ourMount, err, taskErr, umountErr,
                 ret, poolVars, volVars>>

\* volume.go:119-127 / 137-145  unlock(); if ourMount { defer func() {...}() }
UnlockMount(p) ==
    /\ pc[p] = "mountReturned"
    /\ err[p] = Nil
    /\ locks' = unlock(mountLockID(vol[p]))
    /\ deferred' = [deferred EXCEPT ![p] = RegisterDefer(p)]
    /\ pc' = [pc EXCEPT ![p] = "callTask"]
    /\ trace' = [trace EXCEPT ![p] = Append(@, Ev("unlock", <<mountLockID(vol[p])>>))]
    /\ UNCHANGED <<vol, refs, driverKind, ourMount, err, taskErr, umountErr, ret, poolVars, volVars>>

\* volume.go:148  task(v.MountPath(), op) is entered
TaskArg(v) == MountPath(v)

TaskStart(p) ==
    /\ pc[p] = "callTask"
    /\ pc' = [pc EXCEPT ![p] = "inTask"]
    /\ trace' = [trace EXCEPT ![p] = Append(@, Ev("task", <<TaskArg(vol[p])>>))]
    /\ UNCHANGED <<vol, locks, refs, driverKind, ourMount, err, taskErr, deferred,
                 umountErr, ret, poolVars, volVars>>

\* Variant: an unmount error is returned when the task succeeded.
ReturnValueWithUnmountError(taskResult, unmountResult) ==
    IF taskResult # Nil THEN taskResult ELSE unmountResult

\* volume.go:148  return task(...): the deferred function's result is dropped
ReturnValue(taskResult, unmountResult) == taskResult

\* volume.go:148  the task returns
TaskReturn(p) ==
    /\ pc[p] = "inTask"
    /\ \E e \in {Nil, ErrTask} :
          /\ taskErr' = [taskErr EXCEPT ![p] = e]
          /\ trace' = [trace EXCEPT ![p] = Append(@, Ev("taskReturn", <<e>>))]
    /\ pc' = [pc EXCEPT ![p] = "taskReturned"]
    /\ UNCHANGED <<vol, locks, refs, driverKind, ourMount, err, deferred, umountErr, ret, poolVars, volVars>>

\* Variant: a failed task returns at once, without the compensating unmount.
ReturnSkippingUnmountOnTaskError(p) ==
    /\ pc[p] = "taskReturned"
    /\ ~deferred[p] \/ taskErr[p] # Nil
    /\ ret' = [ret EXCEPT ![p] = ReturnValue(taskErr[p], umountErr[p])]
    /\ pc' = [pc EXCEPT ![p] = "returned"]
    /\ trace' = [trace EXCEPT ![p] = Append(@, Ev("return", <<ret'[p]>>))]
    /\ UNCHANGED <<vol, locks, refs, driverKind, ourMount, err, taskErr, deferred,
                 umountErr, poolVars, volVars>>

\* volume.go:148-149  no deferred function: MountTask returns
ReturnNoDefer(p) ==
    /\ pc[p] = "taskReturned"
    /\ ~deferred[p]
    /\ ret' = [ret EXCEPT ![p] = ReturnValue(taskErr[p], umountErr[p])]
    /\ pc' = [pc EXCEPT ![p] = "returned"]
    /\ trace' = [trace EXCEPT ![p] = Append(@, Ev("return", <<ret'[p]>>))]
    /\ UNCHANGED <<vol, locks, refs, driverKind, ourMount, err, taskErr, deferred,
                 umountErr, poolVars, volVars>>

\* volume.go:123-124 / 141-142  unlock := lock(umountLockID); enter the unmount call
LockUmount(p) ==
    /\ pc[p] = "taskReturned"
    /\ deferred[p]
    /\ LockFree(umountLockID(vol[p]))
    /\ locks' = lock(umountLockID(vol[p]), p)
    /\ pc' = [pc EXCEPT ![p] = "unmounting"]
    /\ trace' = [trace EXCEPT ![p] = Append(@, Ev("lock", <<umountLockID(vol[p])>>))]
    /\ UNCHANGED <<vol, refs, driverKind, ourMount, err, taskErr, deferred, umountErr,
                 ret, poolVars, volVars>>

\* volume.go:124 / 142  the driver's unmount call returns without error
UnmountOK(p) ==
    /\ pc[p] = "unmounting"
    /\ LET call == UnmountCall(vol[p])
           k    == CallKey(vol[p], call)
           r    == DriverUnmount(driverKind, refs[k])
       IN  /\ refs' = [refs EXCEPT ![k] = r.refs]
           /\ trace' = [trace EXCEPT ![p] = Append(@, call)]
    /\ umountErr' = [umountErr EXCEPT ![p] = Nil]
    /\ pc' = [pc EXCEPT ![p] = "unmountReturned"]
    /\ UNCHANGED <<vol, locks, driverKind, ourMount, err, taskErr, deferred, ret, poolVars, volVars>>

\* volume.go:124 / 142  the driver's unmount call returns an error
UnmountFail(p) ==
    /\ pc[p] = "unmounting"
    /\ trace' = [trace EXCEPT ![p] = Append(@, UnmountCall(vol[p]))]
    /\ umountErr' = [umountErr EXCEPT ![p] = ErrUnmount]
    /\ pc' = [pc EXCEPT ![p] = "unmountReturned"]
    /\ UNCHANGED <<vol, locks, refs, driverKind, ourMount, err, taskErr, deferred, ret, poolVars, volVars>>

\* Variant: the deferred function ends without releasing the umount lock.
ReturnHoldingUmountLock(p) ==
    /\ pc[p] = "unmountReturned"
    /\ ret' = [ret EXCEPT ![p] = ReturnValue(taskErr[p], umountErr[p])]
    /\ pc' = [pc EXCEPT ![p] = "returned"]
    /\ trace' = [trace EXCEPT ![p] = Append(@, Ev("return", <<ret'[p]>>))]
    /\ UNCHANGED <<vol, locks, refs, driverKind, ourMount, err, taskErr, deferred,
                 umountErr, poolVars, volVars>>

\* volume.go:125-126 / 143-144  unlock(); the deferred function ends and MountTask returns
UnlockUmount(p) ==
    /\ pc[p] = "unmountReturned"
    /\ locks' = unlock(umountLockID(vol[p]))
    /\ ret' = [ret EXCEPT ![p] = ReturnValue(taskErr[p], umountErr[p])]
    /\ pc' = [pc EXCEPT ![p] = "returned"]
    /\ trace' = [trace EXCEPT ![p] =
                    @ \o <<Ev("unlock", <<umountLockID(vol[p])>>), Ev("return", <<ret'[p]>>)>>]
    /\ UNCHANGED <<vol, refs, driverKind, ourMount, err, taskErr, deferred, umountErr, poolVars, volVars>>

(***************************************************************************)
(* The pool loader: CreatePool, GetPoolByName, GetPoolByInstanceName.      *)
(***************************************************************************)
NoRow == [missing |-> TRUE]

\* No row for the instance in the catalog.
NoInstance == "<no instance>"

NilPool == [kind |-> "nil"]

NilDesc == [nil |-> TRUE]

NilMap == "nil map"

EmptyMap == "empty map"

ErrNilValue == "Nil value provided"

ErrNoSuchObject == "No such object"

ErrUnknownDriver == "Unknown driver"

ErrCreate == "create failed"

\* Storage technologies named in pool rows; only "dir" has a driver.
DriverTags == {"dir", "bogus"}

KnownDrivers == {"dir"}

Descriptors ==
    [Name : PoolNames, Driver : DriverTags, Config : {NilMap, EmptyMap}]

Projects == {"default"}

InstanceNames == {"c1", "c2"}

PoolIDs == {1, 2}

PoolIDOf(name) == IF name = "p1" THEN 1 ELSE 2

\* state.Cluster.StoragePoolGet(name)
StoragePoolGet(name) ==
    IF name \in DOMAIN dbPools /\ dbPools[name] # NoRow
    THEN [poolID |-> PoolIDOf(name), dbPool |-> dbPools[name], err |-> Nil]
    ELSE [poolID |-> -1, dbPool |-> NilDesc, err |-> ErrNoSuchObject]

\* state.Cluster.ContainerPool(project, instance)
ContainerPool(projectName, instanceName) ==
    IF dbInstances[<<projectName, instanceName>>] # NoInstance
    THEN [poolName |-> dbInstances[<<projectName, instanceName>>], err |-> Nil]
    ELSE [poolName |-> "", err |-> ErrNoSuchObject]

\* drivers.Load(state, driverName, name, config, logger, volIDFunc, rules)
Load(driverName, name, config, poolID) ==
    IF driverName \in KnownDrivers
    THEN [driver |-> [tag |-> driverName, name |-> name, config |-> config,
                      volIDPool |-> poolID],
          err    |-> Nil]
    ELSE [driver |-> NilPool, err |-> ErrUnknownDriver]

\* mockBackend{name: name}
mockBackend(name) == [kind |-> "mock", name |-> name]

\* lxdBackend{driver, id, name}
lxdBackend(driver, id, name) ==
    [kind |-> "lxd", driver |-> driver, id |-> id, name |-> name]

\* if dbPool.Config == nil { dbPool.Config = map[string]string{} }
EnsureConfig(dbPool) ==
    IF dbPool.Config = NilMap THEN [dbPool EXCEPT !.Config = EmptyMap] ELSE dbPool

Out(pool, e, steps) == [pool |-> pool, err |-> e, steps |-> steps]

\* Variant: the mock short-circuit placed before the nil check.
CreatePoolMockFirst(mock, poolID, dbPool, createErr) ==
    IF mock
    THEN Out(mockBackend(IF dbPool = NilDesc THEN "" ELSE dbPool.Name), Nil, <<>>)
    ELSE IF dbPool = NilDesc THEN Out(NilPool, ErrNilValue, <<>>)
    ELSE LET d == EnsureConfig(dbPool)
             l == Load(d.Driver, d.Name, d.Config, poolID)
         IN  IF l.err # Nil THEN Out(NilPool, l.err, <<"Load">>)
             ELSE IF createErr # Nil
                  THEN Out(NilPool, createErr, <<"Load", "create">>)
                  ELSE Out(lxdBackend(l.driver, poolID, d.Name), Nil,
                           <<"Load", "create">>)

\* CreatePool; createErr is what pool.create would return.
CreatePool(mock, poolID, dbPool, createErr) ==
    IF dbPool = NilDesc THEN Out(NilPool, ErrNilValue, <<>>)
    ELSE LET d == EnsureConfig(dbPool)
         IN  IF mock THEN Out(mockBackend(d.Name), Nil, <<>>)
             ELSE LET l == Load(d.Driver, d.Name, d.Config, poolID)
                  IN  IF l.err # Nil THEN Out(NilPool, l.err, <<"Load">>)
                      ELSE IF createErr # Nil
                           THEN Out(NilPool, createErr, <<"Load", "create">>)
                           ELSE Out(lxdBackend(l.driver, poolID, d.Name), Nil,
                                    <<"Load", "create">>)

\* Variant: GetPoolByName without the mock short-circuit.
GetPoolByNameNoMock(mock, name) ==
    LET g == StoragePoolGet(name)
    IN  IF g.err # Nil THEN Out(NilPool, g.err, <<"StoragePoolGet">>)
        ELSE LET d == EnsureConfig(g.dbPool)
                 l == Load(d.Driver, d.Name, d.Config, g.poolID)
             IN  IF l.err # Nil
                 THEN Out(NilPool, l.err, <<"StoragePoolGet", "Load">>)
                 ELSE Out(lxdBackend(l.driver, g.poolID, d.Name), Nil,
                          <<"StoragePoolGet", "Load">>)

GetPoolByName(mock, name) ==
    IF mock THEN Out(mockBackend(name), Nil, <<>>)
    ELSE LET g == StoragePoolGet(name)
         IN  IF g.err # Nil THEN Out(NilPool, g.err, <<"StoragePoolGet">>)
             ELSE LET d == EnsureConfig(g.dbPool)
                      l == Load(d.Driver, d.Name, d.Config, g.poolID)
                  IN  IF l.err # Nil
                      THEN Out(NilPool, l.err, <<"StoragePoolGet", "Load">>)
                      ELSE Out(lxdBackend(l.driver, g.poolID, d.Name), Nil,
                               <<"StoragePoolGet", "Load">>)

GetPoolByInstanceName(mock, projectName, instanceName) ==
    LET c == ContainerPool(projectName, instanceName)
    IN  IF c.err # Nil THEN Out(NilPool, c.err, <<"ContainerPool">>)
        ELSE LET r == GetPoolByName(mock, c.poolName)
             IN  Out(r.pool, r.err, <<"ContainerPool">> \o r.steps)

NoResult == [op |-> "none"]

DoCreatePool ==
    \E poolID \in PoolIDs, dbPool \in Descriptors \cup {NilDesc},
       createErr \in {Nil, ErrCreate} :
        /\ result' = [op  |-> "CreatePool",
                      arg |-> <<poolID, dbPool>>,
                      out |-> CreatePool(MockBackend, poolID, dbPool, createErr)]
        /\ UNCHANGED <<MockBackend, dbPools, dbInstances, mtVars, volVars>>

DoGetPoolByName ==
    \E name \in PoolNames \cup {"nonexistent"} :
        /\ result' = [op  |-> "GetPoolByName",
                      arg |-> <<name>>,
                      out |-> GetPoolByName(MockBackend, name)]
        /\ UNCHANGED <<MockBackend, dbPools, dbInstances, mtVars, volVars>>

DoGetPoolByInstanceName ==
    \E projectName \in Projects, instanceName \in InstanceNames :
        /\ result' = [op  |-> "GetPoolByInstanceName",
                      arg |-> <<projectName, instanceName>>,
                      out |-> GetPoolByInstanceName(MockBackend, projectName, instanceName)]
        /\ UNCHANGED <<MockBackend, dbPools, dbInstances, mtVars, volVars>>

(***************************************************************************)
(* The ID-resolution callback made by volIDFuncMake.                       *)
(***************************************************************************)
\* Longest volume name and snapshot name given to the single-volume operations.
MaxNameLen == 3

\* All sequences over alphabet of length 1..n.
SeqsUpTo(alphabet, n) == UNION { [1..k -> alphabet] : k \in 1..n }

ErrInvalidVolType == "Invalid storage volume type"

ErrDB == "database is locked"

\* VolumeTypeToDBType: the catalog's code of a volume type.
VolumeTypeToDBType(volType) ==
    IF volType = VolumeTypeContainer THEN [id |-> 0, err |-> Nil]
    ELSE IF volType = VolumeTypeImage THEN [id |-> 1, err |-> Nil]
    ELSE IF volType = VolumeTypeCustom THEN [id |-> 2, err |-> Nil]
    ELSE IF volType = VolumeTypeVM THEN [id |-> 3, err |-> Nil]
    ELSE [id |-> -1, err |-> ErrInvalidVolType]

\* A row of the catalog's volume table.
VolumeRow(project, name, volTypeID, poolID, id) ==
    [project |-> project, name |-> name, volType |-> volTypeID, poolID |-> poolID,
     id |-> id]

\* The rows the catalog may hold.
CandidateRows ==
    { VolumeRow("a", "a", 0, 1, 10),
      VolumeRow("default", "a_a", 2, 1, 11),
      VolumeRow("default", "a", 0, 2, 12) }

\* state.Cluster.StoragePoolNodeVolumeGetTypeByProject(project, name, type, poolID);
\* dbErr is the error of the catalog itself, if any.
StoragePoolNodeVolumeGetTypeByProject(project, volName, volTypeID, poolID, dbErr) ==
    LET rows == { r \in dbVolumes :
                    /\ r.project = project
                    /\ r.name = volName
                    /\ r.volType = volTypeID
                    /\ r.poolID = poolID }
    IN  IF dbErr # Nil THEN [id |-> -1, err |-> dbErr]
        ELSE IF rows = {} THEN [id |-> -1, err |-> ErrNoSuchObject]
        ELSE [id |-> (CHOOSE r \in rows : TRUE).id, err |-> Nil]

DefaultProject == <<"d", "e", "f", "a", "u", "l", "t">>

\* Variant: the name of every volume type is split.
HasProjectPrefixAnyType(volType) == TRUE

\* part_000:37  whether the volume name of this type carries the project name
HasProjectPrefix(volType) ==
    volType = VolumeTypeContainer \/ volType = VolumeTypeVM

\* part_000:36-43  the project and volume name the callback looks up
ProjectAndName(volType, volName) ==
    LET volParts == SplitN2(volName, "_")
    IN  IF HasProjectPrefix(volType) /\ Len(volParts) > 1
        THEN [project |-> volParts[1], volName |-> volParts[2]]
        ELSE [project |-> DefaultProject, volName |-> volName]

\* The error returned when the catalog has no such volume.
VolumeNotFound(project, volName, volType) ==
    "Failed to get volume ID for project '" \o project \o "', volume '" \o volName
        \o "', type '" \o volType \o "': Volume doesn't exist"

\* The function returned by volIDFuncMake(state, poolID), applied to
\* (volType, volName).
volIDFunc(poolID, volType, volName, dbErr) ==
    LET t == VolumeTypeToDBType(volType)
    IN  IF t.err # Nil THEN [id |-> -1, err |-> t.err, lookups |-> <<>>]
        ELSE LET pn == ProjectAndName(volType, volName)
                 project == Str(pn.project)
                 name == Str(pn.volName)
                 g == StoragePoolNodeVolumeGetTypeByProject(project, name, t.id,
                                                            poolID, dbErr)
                 lookups == << <<project, name, t.id, poolID>> >>
             IN  IF g.err # Nil
                 THEN IF g.err = ErrNoSuchObject
                      THEN [id |-> -1,
                            err |-> VolumeNotFound(project, name, volType),
                            lookups |-> lookups]
                      ELSE [id |-> -1, err |-> g.err, lookups |-> lookups]
                 ELSE [id |-> g.id, err |-> Nil, lookups |-> lookups]

VolIDNames == SeqsUpTo({"a", "_"}, MaxNameLen)

\* A driver calls the callback of the pool with identifier poolID.
DoVolID ==
    /\ volResult = NoResult
    /\ \E poolID \in PoolIDs, volType \in VolumeTypes, volName \in VolIDNames,
          dbErr \in {Nil, ErrDB} :
           /\ volResult' = [op  |-> "volID",
                            arg |-> <<poolID, volType, volName>>,
                            out |-> volIDFunc(poolID, volType, volName, dbErr)]
           /\ UNCHANGED <<fs, dbVolumes, mtVars, poolVars>>

(***************************************************************************)
(* Snapshots of a volume: IsSnapshot, NewSnapshot, Snapshots.              *)
(***************************************************************************)
\* Most snapshots a driver reports for one volume.
MaxSnapshots == 2

ErrSnapshotOfSnapshot == "Cannot create a snapshot volume from a snapshot"

ErrIsSnapshot == "Volume is a snapshot"

ErrDriver == "driver failed"

\* shared.IsSnapshot: the name contains the snapshot delimiter.
IsSnapshotName(name) == \E i \in 1..Len(name) : name[i] = SnapshotDelimiter

\* volume.go:69-71
IsSnapshot(v) == IsSnapshotName(v.name)

\* Volume{}
ZeroVolume == NewVolume("", "", "", "", <<>>, "")

\* volume.go:59-66
NewSnapshot(v, snapshotName) ==
    IF IsSnapshot(v)
    THEN [vol |-> ZeroVolume, err |-> ErrSnapshotOfSnapshot]
    ELSE [vol |-> NewVolume(v.driver, v.pool, v.volType, v.contentType,
                            GetSnapshotVolumeName(v.name, snapshotName), v.config),
          err |-> Nil]

\* Variant: every snapshot is put in front of the ones before it.
RECURSIVE SnapshotsLoopPrepending(_, _, _)
SnapshotsLoopPrepending(v, snapshots, snapVols) ==
    IF snapshots = <<>> THEN [vols |-> snapVols, err |-> Nil]
    ELSE LET r == NewSnapshot(v, Head(snapshots))
         IN  IF r.err # Nil THEN [vols |-> <<>>, err |-> r.err]
             ELSE SnapshotsLoopPrepending(v, Tail(snapshots), <<r.vol>> \o snapVols)

\* volume.go:162-171  the loop over the names the driver returned
RECURSIVE SnapshotsLoop(_, _, _)
SnapshotsLoop(v, snapshots, snapVols) ==
    IF snapshots = <<>> THEN [vols |-> snapVols, err |-> Nil]
    ELSE LET r == NewSnapshot(v, Head(snapshots))
         IN  IF r.err # Nil THEN [vols |-> <<>>, err |-> r.err]
             ELSE SnapshotsLoop(v, Tail(snapshots), Append(snapVols, r.vol))

\* The call v.driver.VolumeSnapshots(v.volType, v.name, op).
VolumeSnapshotsCall(v) == <<"VolumeSnapshots", v.volType, Str(v.name)>>

\* Variant: Snapshots without the check that the volume is no snapshot.
SnapshotsUnchecked(v, driverOut) ==
    IF driverOut.err # Nil
    THEN [vols |-> <<>>, err |-> driverOut.err, calls |-> <<VolumeSnapshotsCall(v)>>]
    ELSE LET l == SnapshotsLoop(v, driverOut.snapshots, <<>>)
         IN  [vols |-> l.vols, err |-> l.err, calls |-> <<VolumeSnapshotsCall(v)>>]

\* volume.go:152-172; driverOut is what the driver's VolumeSnapshots returns.
Snapshots(v, driverOut) ==
    IF IsSnapshot(v)
    THEN [vols |-> <<>>, err |-> ErrIsSnapshot, calls |-> <<>>]
    ELSE IF driverOut.err # Nil
    THEN [vols |-> <<>>, err |-> driverOut.err, calls |-> <<VolumeSnapshotsCall(v)>>]
    ELSE LET l == SnapshotsLoop(v, driverOut.snapshots, <<>>)
         IN  [vols |-> l.vols, err |-> l.err, calls |-> <<VolumeSnapshotsCall(v)>>]

\* The volumes NewSnapshot and Snapshots are called on.
SnapVolNames == SeqsUpTo({"a", SnapshotDelimiter}, MaxNameLen)

SnapVolumes ==
    { NewVolume(pn, pn, vt, ct, vn, "config of " \o pn) :
        pn \in {"p1"}, vt \in {VolumeTypeContainer, VolumeTypeCustom},
        ct \in {ContentTypeFS, ContentTypeBlock}, vn \in SnapVolNames }

\* The snapshot names a driver reports or a caller asks for.
SnapshotNames == { <<"s">>, <<"t">>, <<"s", "t">> }

SnapshotLists ==
    {<<>>} \cup UNION { [1..k -> SnapshotNames] : k \in 1..MaxSnapshots }

DoNewSnapshot ==
    /\ volResult = NoResult
    /\ \E v \in SnapVolumes, snapshotName \in SnapshotNames :
           /\ volResult' = [op  |-> "NewSnapshot",
                            arg |-> <<v, snapshotName>>,
                            out |-> NewSnapshot(v, snapshotName)]
           /\ UNCHANGED <<fs, dbVolumes, mtVars, poolVars>>

DoSnapshots ==
    /\ volResult = NoResult
    /\ \E v \in SnapVolumes, snapshots \in SnapshotLists, e \in {Nil, ErrDriver} :
           LET driverOut == IF e = Nil THEN [snapshots |-> snapshots, err |-> Nil]
                            ELSE [snapshots |-> <<>>, err |-> e]
           IN  /\ volResult' = [op  |-> "Snapshots",
                                arg |-> <<v, driverOut>>,
                                out |-> Snapshots(v, driverOut)]
               /\ UNCHANGED <<fs, dbVolumes, mtVars, poolVars>>

(***************************************************************************)
(* The lock identifiers MountTask computes for two volumes.                *)
(***************************************************************************)
\* volume.go:105-106  the lock identifiers of a MountTask call on v
TaskLockIDs(v) == {mountLockID(v), umountLockID(v)}

LockVolumes ==
    { NewVolume(pn, pn, vt, ContentTypeFS, vn, "") :
        pn \in PoolNames, vt \in VolumeTypes, vn \in SnapVolNames }

DoLockIDs ==
    /\ volResult = NoResult
    /\ \E v \in LockVolumes, w \in LockVolumes :
           /\ volResult' = [op  |-> "lockIDs",
                            arg |-> <<v, w>>,
                            out |-> <<TaskLockIDs(v), TaskLockIDs(w)>>]
           /\ UNCHANGED <<fs, dbVolumes, mtVars, poolVars>>

(***************************************************************************)
(* CreateMountPath and the directories below the storage-pools directory.  *)
(* A path is the sequence of its components; fs gives the mode of every    *)
(* directory, or Absent.                                                   *)
(***************************************************************************)
Absent == "absent"

\* os.MkdirAll(volPath, 0711)
ModeMountPath == "0711"

\* os.Chmod(volPath, 0100)
ModeRestricted == "0100"

ErrMkdir == "mkdir failed"

ErrChmod == "chmod failed"

\* The components of s between the separators.
RECURSIVE SplitAll(_, _)
SplitAll(s, sep) ==
    LET i == IndexOf(s, sep)
    IN  IF i = 0 THEN <<Str(s)>>
        ELSE <<Str(SubSeq(s, 1, i-1))>> \o SplitAll(SubSeq(s, i+1, Len(s)), sep)

\* The directories of GetVolumeMountPath(pool, type, name), outermost first.
MountPathDirs(v) ==
    <<"storage-pools", v.pool,
      IF IsSnapshotName(v.name) THEN v.volType \o "-snapshots" ELSE v.volType>>
        \o SplitAll(v.name, SnapshotDelimiter)

\* The volumes CreateMountPath is called on.
PathVolumes ==
    { NewVolume("p1", "p1", vt, ContentTypeFS, <<"a">>, "") : vt \in VolumeTypes }
        \cup { NewVolume("p1", "p1", VolumeTypeContainer, ContentTypeFS,
                         <<"a", "/", "s">>, "") }

Prefixes(path) == { SubSeq(path, 1, k) : k \in 1..Len(path) }

Dirs == UNION { Prefixes(MountPathDirs(v)) : v \in PathVolumes }

\* os.MkdirAll(path, perm): creates the missing directories of path, outermost
\* first; failAt is the depth at which creating a directory fails (0: none).
MkdirAll(f, path, perm, failAt) ==
    LET missing == { k \in 1..Len(path) : f[SubSeq(path, 1, k)] = Absent }
        fails   == failAt \in missing
        made    == { SubSeq(path, 1, k) : k \in { j \in missing : ~fails \/ j < failAt } }
    IN  [fs      |-> [d \in Dirs |-> IF d \in made THEN perm ELSE f[d]],
         created |-> made,
         err     |-> IF fails THEN ErrMkdir ELSE Nil]

\* os.Chmod(path, mode); chmodErr is the error of the system call, if any.
Chmod(f, path, mode, chmodErr) ==
    [fs  |-> IF chmodErr = Nil THEN [f EXCEPT ![path] = mode] ELSE f,
     err |-> chmodErr]

\* Variant: the mode is restricted for every volume type.
RestrictsModeAlways(volType) == TRUE

\* volume.go:89  the types whose mount path gets mode 0100
RestrictsMode(volType) ==
    volType # VolumeTypeCustom /\ volType # VolumeTypeImage

\* volume.go:79-98
CreateMountPath(v, f, failAt, chmodErr) ==
    LET volPath == MountPathDirs(v)
        m == MkdirAll(f, volPath, ModeMountPath, failAt)
    IN  IF m.err # Nil
        THEN [fs |-> m.fs, err |-> m.err, created |-> m.created, chmods |-> <<>>]
        ELSE IF RestrictsMode(v.volType)
        THEN LET c == Chmod(m.fs, volPath, ModeRestricted, chmodErr)
             IN  [fs |-> c.fs, err |-> c.err, created |-> m.created,
                  chmods |-> << <<volPath, ModeRestricted>> >>]
        ELSE [fs |-> m.fs, err |-> Nil, created |-> m.created, chmods |-> <<>>]

DoCreateMountPath ==
    \E v \in PathVolumes, chmodErr \in {Nil, ErrChmod} :
        \E failAt \in 0..Len(MountPathDirs(v)) :
            LET r == CreateMountPath(v, fs, failAt, chmodErr)
            IN  /\ fs' = r.fs
                /\ volResult' = [op  |-> "CreateMountPath",
                                 arg |-> <<v>>,
                                 out |-> [err |-> r.err, created |-> r.created,
                                          chmods |-> r.chmods]]
                /\ UNCHANGED <<dbVolumes, mtVars, poolVars>>

(***************************************************************************)
(* Specifications.                                                         *)
(***************************************************************************)
MTIdle ==
    /\ pc = [p \in Callers |-> "idle"]
    /\ vol = [p \in Callers |-> NoVolume]
    /\ locks = [id \in LockIDs |-> NoCaller]
    /\ refs = [k \in StrKeys |-> 0]
    /\ ourMount = [p \in Callers |-> FALSE]
    /\ err = [p \in Callers |-> Nil]
    /\ taskErr = [p \in Callers |-> Nil]
    /\ deferred = [p \in Callers |-> FALSE]
    /\ umountErr = [p \in Callers |-> Nil]
    /\ ret = [p \in Callers |-> NotReturned]
    /\ trace = [p \in Callers |-> <<>>]

PoolIdle ==
    /\ MockBackend = FALSE
    /\ dbPools = [n \in PoolNames |-> NoRow]
    /\ dbInstances = [i \in Projects \X InstanceNames |-> NoInstance]
    /\ result = NoResult

VolIdle ==
    /\ fs = [d \in Dirs |-> Absent]
    /\ dbVolumes = {}
    /\ volResult = NoResult

\* Concurrent MountTask calls.
Init ==
    /\ MTIdle
    /\ driverKind \in DriverKinds
    /\ PoolIdle
    /\ VolIdle

Step(p) ==
    \/ Call(p)
    \/ LockMount(p)
    \/ MountOK(p)
    \/ MountFail(p)
    \/ MountErrReturn(p)
    \/ UnlockMount(p)
    \/ TaskStart(p)
    \/ TaskReturn(p)
    \/ ReturnNoDefer(p)
    \/ LockUmount(p)
    \/ UnmountOK(p)
    \/ UnmountFail(p)
    \/ UnlockUmount(p)

Next == \E p \in Callers : Step(p)

Spec == Init /\ [][Next]_vars

\* A step of a call that has been made.
Proceed(p) == pc[p] # "idle" /\ Step(p)

\* Every driver call and every task returns, and every goroutine that can
\* run keeps being scheduled: a call that was made and can take a step
\* eventually takes one.  Nothing obliges a caller to make its call.
Fairness == \A p \in Callers : WF_vars(Proceed(p))

FairSpec == Init /\ [][Next]_vars /\ Fairness

\* Calls of the pool loader against any catalog content.
PoolInit ==
    /\ MTIdle
    /\ driverKind = "refcount"
    /\ MockBackend \in BOOLEAN
    /\ dbPools \in [PoolNames -> {NoRow} \cup Descriptors]
    /\ \A n \in PoolNames : dbPools[n] # NoRow => dbPools[n].Name = n
    /\ dbInstances \in [Projects \X InstanceNames -> {NoInstance} \cup PoolNames]
    /\ result = NoResult
    /\ VolIdle

PoolNext ==
    \/ DoCreatePool
    \/ DoGetPoolByName
    \/ DoGetPoolByInstanceName

PoolSpec == PoolInit /\ [][PoolNext]_vars

\* Operations on single volumes against any catalog content.
VolInit ==
    /\ MTIdle
    /\ driverKind = "refcount"
    /\ PoolIdle
    /\ fs = [d \in Dirs |-> Absent]
    /\ dbVolumes \in SUBSET CandidateRows
    /\ volResult = NoResult

VolNext ==
    \/ DoVolID
    \/ DoNewSnapshot
    \/ DoSnapshots
    \/ DoLockIDs

VolSpec == VolInit /\ [][VolNext]_vars

\* CreateMountPath calls, starting with or without the pool's directory.
PathInit ==
    /\ MTIdle
    /\ driverKind = "refcount"
    /\ PoolIdle
    /\ \E poolDirExists \in BOOLEAN :
          fs = [d \in Dirs |->
                  IF poolDirExists /\ Len(d) <= 2 THEN ModeMountPath ELSE Absent]
    /\ dbVolumes = {}
    /\ volResult = NoResult

PathNext == DoCreateMountPath

PathSpec == PathInit /\ [][PathNext]_vars

(***************************************************************************)
(* Vocabulary of the properties.                                           *)
(***************************************************************************)
Started(p) == pc[p] # "idle"

Returned(p) == pc[p] = "returned"

\* p and q are distinct calls on volumes of the same (volume type, volume name).
SameTypeAndName(p, q) ==
    /\ p # q
    /\ Started(p)
    /\ Started(q)
    /\ vol[p].volType = vol[q].volType
    /\ vol[p].name = vol[q].name

\* p and q are distinct calls on the same volume of the same pool.
SameVolume(p, q) == SameTypeAndName(p, q) /\ vol[p].pool = vol[q].pool

InMountCall(p) == pc[p] = "mounting"

InUnmountCall(p) == pc[p] = "unmounting"

MountOps == {"MountVolume", "MountVolumeSnapshot"}

UnmountOps == {"UnmountVolume", "UnmountVolumeSnapshot"}

\* Number of events of trace t whose name is in names.
CountEv(t, names) == Cardinality({ i \in 1..Len(t) : t[i].ev \in names })

\* Positions of the events of trace t whose name is in names.
Positions(t, names) == { i \in 1..Len(t) : t[i].ev \in names }

\* The mount call of p returned (true, nil).
MountedByUs(p) ==
    /\ pc[p] \notin {"idle", "lockMount", "mounting"}
    /\ ourMount[p]
    /\ err[p] = Nil

\* The mount call of p returned an error.
MountFailed(p) ==
    /\ pc[p] \notin {"idle", "lockMount", "mounting"}
    /\ err[p] # Nil

(***************************************************************************)
(* C1. For calls on the same (volume type, volume name): no state has one  *)
(* caller inside the driver's mount call while another caller is inside    *)
(* the driver's unmount call.                                              *)
(***************************************************************************)
C1_MountExcludesUnmount ==
    \A p, q \in Callers :
        SameTypeAndName(p, q) => ~(InMountCall(p) /\ InUnmountCall(q))

(***************************************************************************)
(* C2. No premature unmount: whenever a caller's task is running, the      *)
(* volume it runs on is mounted.                                           *)
(***************************************************************************)
C2_MountedWhileTaskRuns ==
    \A p \in Callers : pc[p] = "inTask" => Mounted(StrKey(vol[p]))

(***************************************************************************)
(* C3. For calls on the same (volume type, volume name): at most one       *)
(* caller is inside the driver's mount call, and at most one caller is     *)
(* inside the driver's unmount call.                                       *)
(***************************************************************************)
C3_DecisionsSerialized ==
    \A p, q \in Callers :
        SameTypeAndName(p, q) =>
            /\ ~(InMountCall(p) /\ InMountCall(q))
            /\ ~(InUnmountCall(p) /\ InUnmountCall(q))

\* One caller is inside the mount call while another caller of the same
\* (type, name) waits for the mount lock.
C3_Witness ==
    \E p, q \in Callers :
        /\ SameTypeAndName(p, q)
        /\ InMountCall(p)
        /\ pc[q] = "lockMount"

(***************************************************************************)
(* C4. A call invokes the driver's unmount at most once, only after its    *)
(* own mount call returned (true, nil); once the call has returned it has  *)
(* invoked it exactly once in that case and never otherwise.  So when all  *)
(* calls have returned, the unmounts issued are exactly one per caller     *)
(* that was told it performed the mount, and issued by that caller.        *)
(***************************************************************************)
C4_UnmountIffOurMount ==
    /\ \A p \in Callers :
          /\ CountEv(trace[p], UnmountOps) <= (IF MountedByUs(p) THEN 1 ELSE 0)
          /\ Returned(p) =>
                CountEv(trace[p], UnmountOps) = (IF MountedByUs(p) THEN 1 ELSE 0)
    /\ (\A p \in Callers : Returned(p)) =>
          { p \in Callers : CountEv(trace[p], UnmountOps) > 0 }
             = { p \in Callers : MountedByUs(p) }

\* Two calls on one volume have returned: the first was told it mounted
\* and unmounted once, the second was told nothing and did not unmount.
C4_Witness ==
    \E p, q \in Callers :
        /\ SameVolume(p, q)
        /\ Returned(p)
        /\ Returned(q)
        /\ MountedByUs(p)
        /\ ~ourMount[q]
        /\ err[q] = Nil
        /\ CountEv(trace[p], UnmountOps) = 1
        /\ CountEv(trace[q], UnmountOps) = 0

(***************************************************************************)
(* C5. If the driver's mount call returned an error: MountTask returns     *)
(* that error, the task never runs, the driver's unmount is never called,  *)
(* the umount lock is never taken, and the mount lock is released by the   *)
(* time MountTask has returned.                                            *)
(***************************************************************************)
C5_MountErrorPropagates ==
    \A p \in Callers :
        MountFailed(p) =>
            /\ CountEv(trace[p], {"task"}) = 0
            /\ CountEv(trace[p], UnmountOps) = 0
            /\ \A i \in 1..Len(trace[p]) :
                  trace[p][i].ev = "lock" => trace[p][i].arg = <<mountLockID(vol[p])>>
            /\ locks[umountLockID(vol[p])] # p
            /\ pc[p] \in {"mountReturned", "returned"}
            /\ Returned(p) =>
                  /\ ret[p] = err[p]
                  /\ locks[mountLockID(vol[p])] # p
                  /\ CountEv(trace[p], {"unlock"}) = 1

C5_Witness ==
    \E p \in Callers : Returned(p) /\ err[p] = ErrMount /\ ret[p] = ErrMount

(***************************************************************************)
(* C6. In a call whose mount returned (true, nil) the events happen in     *)
(* the order: mount lock, driver mount, mount unlock, task starts, task    *)
(* returns, umount lock, driver unmount, umount unlock, return; the call   *)
(* returns only after all of them, whatever the task returned.             *)
(***************************************************************************)
C6_Order(p) ==
    <<Ev("call", <<>>),
      Ev("lock", <<mountLockID(vol[p])>>),
      MountCall(vol[p]),
      Ev("unlock", <<mountLockID(vol[p])>>),
      Ev("task", <<MountPath(vol[p])>>),
      Ev("taskReturn", <<taskErr[p]>>),
      Ev("lock", <<umountLockID(vol[p])>>),
      UnmountCall(vol[p]),
      Ev("unlock", <<umountLockID(vol[p])>>),
      Ev("return", <<ret[p]>>)>>

C6_Kinds ==
    <<"call", "lock", "mount", "unlock", "task", "taskReturn", "lock", "unmount",
      "unlock", "return">>

C6_Kind(e) ==
    IF e \in MountOps THEN "mount" ELSE IF e \in UnmountOps THEN "unmount" ELSE e

C6_CompensationOrder ==
    \A p \in Callers :
        MountedByUs(p) =>
            /\ Len(trace[p]) <= Len(C6_Kinds)
            /\ \A i \in 1..Len(trace[p]) : C6_Kind(trace[p][i].ev) = C6_Kinds[i]
            /\ Returned(p) => trace[p] = C6_Order(p)

\* Two calls that mounted have returned, one after a failed task and one
\* after a successful task.
C6_Witness ==
    \E p, q \in Callers :
        /\ Returned(p) /\ MountedByUs(p) /\ taskErr[p] = ErrTask
        /\ Returned(q) /\ MountedByUs(q) /\ taskErr[q] = Nil
        /\ CountEv(trace[p], UnmountOps) = 1

(***************************************************************************)
(* C7. A failure of the compensating unmount reaches the caller: when the  *)
(* task succeeded and the driver's unmount failed MountTask does not       *)
(* return nil, and when both failed it returns the task's error.           *)
(***************************************************************************)
C7_UnmountErrorSurfaced ==
    \A p \in Callers :
        (Returned(p) /\ umountErr[p] # Nil) =>
            /\ ret[p] # Nil
            /\ taskErr[p] # Nil => ret[p] = taskErr[p]

(***************************************************************************)
(* C8. If the driver's mount call succeeded, the task is run at most once, *)
(* with the volume's mount path; once MountTask has returned the task ran  *)
(* exactly once and MountTask returned exactly what the task returned,     *)
(* whether or not an unmount ran.                                          *)
(***************************************************************************)
C8_TaskOnceAndReturned ==
    \A p \in Callers :
        (pc[p] \notin {"idle", "lockMount", "mounting"} /\ err[p] = Nil) =>
            /\ CountEv(trace[p], {"task"}) <= 1
            /\ \A i \in Positions(trace[p], {"task"}) :
                  trace[p][i].arg = <<GetVolumeMountPath(vol[p].pool, vol[p].volType, vol[p].name)>>
            /\ Returned(p) =>
                  /\ CountEv(trace[p], {"task"}) = 1
                  /\ CountEv(trace[p], {"taskReturn"}) = 1
                  /\ ret[p] = taskErr[p]

\* A call returned nil although its compensating unmount failed, and
\* another returned the task's error without any unmount.
C8_Witness ==
    \E p, q \in Callers :
        /\ Returned(p) /\ deferred[p] /\ umountErr[p] = ErrUnmount /\ ret[p] = Nil
        /\ Returned(q) /\ ~deferred[q] /\ err[q] = Nil /\ ret[q] = ErrTask

(***************************************************************************)
(* Vocabulary of the pool loader's properties.                             *)
(***************************************************************************)
Called(op) == result.op = op

\* The last call returned the in-memory substitute pool and neither loaded
\* a driver, nor created a pool on disk, nor met a failing catalog lookup.
ShortCircuited ==
    /\ result.out.pool.kind = "mock"
    /\ result.out.err = Nil
    /\ \A i \in 1..Len(result.out.steps) :
          result.out.steps[i] \notin {"Load", "create"}

NonNilCreate == Called("CreatePool") /\ result.arg[2] # NilDesc

(***************************************************************************)
(* C9. With MockBackend set, GetPoolByName, GetPoolByInstanceName and      *)
(* CreatePool with a non-nil descriptor return the substitute pool for     *)
(* every input and every catalog content, with no driver load, no on-disk  *)
(* creation and no failing catalog lookup.                                 *)
(***************************************************************************)
C9_MockShortCircuits ==
    (MockBackend /\ (NonNilCreate \/ Called("GetPoolByName")
                        \/ Called("GetPoolByInstanceName")))
        => ShortCircuited

(***************************************************************************)
(* C9 as amended.  With MockBackend set, GetPoolByName and CreatePool with *)
(* a non-nil descriptor return the substitute pool for every input and     *)
(* every catalog content without consulting the catalog, loading a driver  *)
(* or creating a pool.  GetPoolByInstanceName first looks the instance up  *)
(* in the catalog: when that lookup fails it returns the lookup's error    *)
(* and no pool, otherwise the substitute pool named after the instance's   *)
(* pool; it never loads a driver or creates a pool.                        *)
(***************************************************************************)
C9_MockShortCircuitsAfterInstanceLookup ==
    MockBackend =>
        /\ NonNilCreate =>
              /\ ShortCircuited
              /\ result.out.steps = <<>>
              /\ result.out.pool = mockBackend(result.arg[2].Name)
        /\ Called("GetPoolByName") =>
              /\ ShortCircuited
              /\ result.out.steps = <<>>
              /\ result.out.pool = mockBackend(result.arg[1])
        /\ Called("GetPoolByInstanceName") =>
              /\ result.out.steps = <<"ContainerPool">>
              /\ IF dbInstances[<<result.arg[1], result.arg[2]>>] = NoInstance
                 THEN /\ result.out.err = ErrNoSuchObject
                      /\ result.out.pool = NilPool
                 ELSE /\ ShortCircuited
                      /\ result.out.pool =
                            mockBackend(dbInstances[<<result.arg[1], result.arg[2]>>])

\* In mock mode GetPoolByInstanceName was called for an instance the
\* catalog does not know and returned the catalog's error.
C9_Witness ==
    /\ MockBackend
    /\ Called("GetPoolByInstanceName")
    /\ dbInstances[<<result.arg[1], result.arg[2]>>] = NoInstance
    /\ result.out.err = ErrNoSuchObject

(***************************************************************************)
(* C10. CreatePool with a nil descriptor returns ErrNilValue and no pool,  *)
(* without loading a driver or creating anything, whether MockBackend is   *)
(* set or not.                                                             *)
(***************************************************************************)
C10_NilDescriptorRejected ==
    (Called("CreatePool") /\ result.arg[2] = NilDesc) =>
        /\ result.out.err = ErrNilValue
        /\ result.out.pool = NilPool
        /\ result.out.steps = <<>>

\* CreatePool was called with a nil descriptor in mock mode.
C10_Witness ==
    /\ MockBackend
    /\ Called("CreatePool")
    /\ result.arg[2] = NilDesc
    /\ result.out.err = ErrNilValue

(***************************************************************************)
(* Vocabulary of the properties of the single-volume operations.           *)
(***************************************************************************)
VolCalled(op) == volResult.op = op

HasChar(s, c) == \E i \in 1..Len(s) : s[i] = c

\* pre and post are the parts of s before and after its first character c.
SplitsAtFirst(s, c, pre, post) ==
    /\ ~HasChar(pre, c)
    /\ s = pre \o <<c>> \o post

(***************************************************************************)
(* C11. The callback bound to pool P looks a volume up under P's           *)
(* identifier and the catalog code of its type.  For a container or        *)
(* virtual-machine name with an underscore the project is the text before  *)
(* the first underscore and the name everything after it; without an       *)
(* underscore, and for custom and image volumes always, the project is     *)
(* "default" and the name is unchanged.                                    *)
(***************************************************************************)
C11_LookupByProjectAndName ==
    VolCalled("volID") =>
        LET poolID  == volResult.arg[1]
            volType == volResult.arg[2]
            volName == volResult.arg[3]
            lookups == volResult.out.lookups
        IN  /\ Len(lookups) = 1
            /\ lookups[1][4] = poolID
            /\ lookups[1][3] = VolumeTypeToDBType(volType).id
            /\ IF volType \in {VolumeTypeContainer, VolumeTypeVM} /\ HasChar(volName, "_")
               THEN \E pre, post \in VolIDNames \cup {<<>>} :
                       /\ SplitsAtFirst(volName, "_", pre, post)
                       /\ lookups[1][1] = Str(pre)
                       /\ lookups[1][2] = Str(post)
               ELSE /\ lookups[1][1] = "default"
                    /\ lookups[1][2] = Str(volName)

\* The callback was given a container name with two underscores.
C11_Witness ==
    /\ VolCalled("volID")
    /\ volResult.arg[2] = VolumeTypeContainer
    /\ Cardinality({ i \in 1..Len(volResult.arg[3]) : volResult.arg[3][i] = "_" }) >= 2
    /\ Len(volResult.out.lookups) = 1

(***************************************************************************)
(* C12. NewSnapshot and Snapshots on a volume that is a snapshot fail with *)
(* an error and return no volume; Snapshots then makes no call to the      *)
(* driver.                                                                 *)
(***************************************************************************)
C12_NoSnapshotOfSnapshot ==
    /\ (VolCalled("NewSnapshot") /\ HasChar(volResult.arg[1].name, "/")) =>
          /\ volResult.out.err # Nil
          /\ volResult.out.vol = ZeroVolume
    /\ (VolCalled("Snapshots") /\ HasChar(volResult.arg[1].name, "/")) =>
          /\ volResult.out.err # Nil
          /\ volResult.out.vols = <<>>
          /\ volResult.out.calls = <<>>

\* Snapshots was called on a snapshot whose driver has snapshots to report.
C12_Witness ==
    /\ VolCalled("Snapshots")
    /\ HasChar(volResult.arg[1].name, "/")
    /\ Len(volResult.arg[2].snapshots) > 0
    /\ volResult.out.err = ErrIsSnapshot

(***************************************************************************)
(* C17. Snapshots on a volume that is no snapshot asks the driver once and *)
(* returns one volume per name the driver returned, in the driver's order: *)
(* the i-th is NewSnapshot of the i-th name, is named <parent>/<name>, is  *)
(* a snapshot, and has the parent's pool, type, content type, config and   *)
(* driver.  An error of the driver is returned unchanged with no volumes.  *)
(***************************************************************************)
C17_SnapshotsInDriverOrder ==
    (VolCalled("Snapshots") /\ ~HasChar(volResult.arg[1].name, "/")) =>
        LET v         == volResult.arg[1]
            driverOut == volResult.arg[2]
            out       == volResult.out
        IN  /\ out.calls = << <<"VolumeSnapshots", v.volType, Str(v.name)>> >>
            /\ IF driverOut.err # Nil
               THEN out.err = driverOut.err /\ out.vols = <<>>
               ELSE /\ out.err = Nil
                    /\ Len(out.vols) = Len(driverOut.snapshots)
                    /\ \A i \in 1..Len(out.vols) :
                          /\ out.vols[i].name = v.name \o <<"/">> \o driverOut.snapshots[i]
                          /\ HasChar(out.vols[i].name, "/")
                          /\ out.vols[i].pool = v.pool
                          /\ out.vols[i].volType = v.volType
                          /\ out.vols[i].contentType = v.contentType
                          /\ out.vols[i].config = v.config
                          /\ out.vols[i].driver = v.driver
                          /\ NewSnapshot(v, driverOut.snapshots[i]) =
                                [vol |-> out.vols[i], err |-> Nil]

\* Snapshots returned the volumes of two different snapshots.
C17_Witness ==
    /\ VolCalled("Snapshots")
    /\ ~HasChar(volResult.arg[1].name, "/")
    /\ Len(volResult.out.vols) = 2
    /\ volResult.out.vols[1] # volResult.out.vols[2]
    /\ volResult.arg[1].contentType = ContentTypeBlock

(***************************************************************************)
(* C13. Two volumes that differ in volume type or in volume name have no   *)
(* lock identifier in common, whatever their pools, for all four volume    *)
(* types and for names with and without "/".                               *)
(***************************************************************************)
C13_LockIDsInjective ==
    VolCalled("lockIDs") =>
        LET v == volResult.arg[1]
            w == volResult.arg[2]
        IN  (v.volType # w.volType \/ v.name # w.name) =>
                volResult.out[1] \cap volResult.out[2] = {}

\* The lock identifiers of two snapshots of different types and names.
C13_Witness ==
    /\ VolCalled("lockIDs")
    /\ volResult.arg[1].volType # volResult.arg[2].volType
    /\ volResult.arg[1].name # volResult.arg[2].name
    /\ HasChar(volResult.arg[1].name, "/")
    /\ HasChar(volResult.arg[2].name, "/")
    /\ Cardinality(volResult.out[1] \cup volResult.out[2]) = 4

(***************************************************************************)
(* C14. After a successful CreateMountPath on a container or               *)
(* virtual-machine volume the mount directory has mode 0100 and the        *)
(* ancestors the call created have mode 0711.  On a custom or image volume *)
(* no permission change is attempted and after success the mount directory *)
(* has mode 0711.  When creating the directories fails, that error is      *)
(* returned and no permission change is attempted.                         *)
(***************************************************************************)
C14_MountPathModes ==
    VolCalled("CreateMountPath") =>
        LET v    == volResult.arg[1]
            leaf == MountPathDirs(v)
            out  == volResult.out
        IN  /\ v.volType \in {VolumeTypeContainer, VolumeTypeVM} =>
                  (out.err = Nil =>
                      /\ fs[leaf] = "0100"
                      /\ out.chmods = << <<leaf, "0100">> >>
                      /\ \A d \in out.created \ {leaf} : fs[d] = "0711")
            /\ v.volType \in {VolumeTypeCustom, VolumeTypeImage} =>
                  /\ out.chmods = <<>>
                  /\ out.err = Nil => fs[leaf] = "0711"
                  /\ \A d \in out.created : fs[d] = "0711"
            /\ out.err = ErrMkdir =>
                  /\ out.chmods = <<>>
                  /\ fs[leaf] = Absent
            /\ out.err \in {Nil, ErrMkdir, ErrChmod}

\* The path of a virtual-machine volume was created with its ancestors and
\* restricted, next to the untouched path of a custom volume.
C14_Witness ==
    /\ VolCalled("CreateMountPath")
    /\ volResult.arg[1].volType = VolumeTypeVM
    /\ volResult.out.err = Nil
    /\ Cardinality(volResult.out.created) >= 2
    /\ fs[MountPathDirs(volResult.arg[1])] = ModeRestricted
    /\ fs[<<"storage-pools", "p1", VolumeTypeCustom, "a">>] = ModeMountPath

(***************************************************************************)
(* C15. The mount lock is released right after the driver's mount call     *)
(* returns and before the task starts: a caller whose task is about to     *)
(* run or is running holds no lock, and the release is the step between    *)
(* its mount call and its task.  Two calls on the same volume can          *)
(* therefore have their tasks running at the same time.                    *)
(***************************************************************************)
C15_NoLockWhileTaskRuns ==
    \A p \in Callers :
        /\ pc[p] \in {"callTask", "inTask"} =>
              \A id \in LockIDs : locks[id] # p
        /\ pc[p] = "inTask" =>
              LET n == Len(trace[p])
              IN  /\ trace[p][n].ev = "task"
                  /\ trace[p][n - 1].ev = "unlock"
                  /\ trace[p][n - 2].ev \in MountOps
                  /\ trace[p][n - 3] = Ev("lock", trace[p][n - 1].arg)

\* Two calls on the same volume of the same pool are both inside their task.
C15_Witness ==
    \E p, q \in Callers :
        /\ SameVolume(p, q)
        /\ pc[p] = "inTask"
        /\ pc[q] = "inTask"

(***************************************************************************)
(* C16. A call on a snapshot volume (name = parent/suffix) invokes only    *)
(* MountVolumeSnapshot and UnmountVolumeSnapshot, both with (type, parent, *)
(* suffix); a call on any other volume invokes only MountVolume and        *)
(* UnmountVolume, both with (type, name).  Every lock a call takes or      *)
(* releases is named after the type and the full volume name.              *)
(***************************************************************************)
C16_DriverArgs(v) ==
    IF HasChar(v.name, "/")
    THEN LET i == CHOOSE k \in 1..Len(v.name) :
                      /\ v.name[k] = "/"
                      /\ \A j \in 1..(k - 1) : v.name[j] # "/"
         IN  <<v.volType, Str(SubSeq(v.name, 1, i - 1)),
               Str(SubSeq(v.name, i + 1, Len(v.name)))>>
    ELSE <<v.volType, Str(v.name)>>

C16_PairedByShape ==
    \A p \in Callers :
        Started(p) =>
            \A i \in 1..Len(trace[p]) :
                LET e == trace[p][i]
                    v == vol[p]
                IN  /\ e.ev \in MountOps \cup UnmountOps =>
                          /\ e.arg = C16_DriverArgs(v)
                          /\ e.ev \in (IF HasChar(v.name, "/")
                                       THEN {"MountVolumeSnapshot", "UnmountVolumeSnapshot"}
                                       ELSE {"MountVolume", "UnmountVolume"})
                    /\ e.ev \in {"lock", "unlock"} =>
                          e.arg[1] \in {"mount/" \o v.volType \o "/" \o Str(v.name),
                                        "umount/" \o v.volType \o "/" \o Str(v.name)}

\* A call on a snapshot volume has returned after mounting and unmounting it.
C16_Witness ==
    \E p \in Callers :
        /\ Returned(p)
        /\ HasChar(vol[p].name, "/")
        /\ CountEv(trace[p], {"MountVolumeSnapshot"}) = 1
        /\ CountEv(trace[p], {"UnmountVolumeSnapshot"}) = 1

\* The named locks caller p holds.
HeldBy(p) == { id \in LockIDs : locks[id] = p }

\* p waits for a named lock.
WaitsForLock(p) ==
    \/ pc[p] = "lockMount"
    \/ pc[p] = "taskReturned" /\ deferred[p]

(***************************************************************************)
(* C18. A call holds at most one named lock at any time, holds none while  *)
(* it waits for a lock, and holds none once it has returned, by whichever  *)
(* path.  A call that waits for a lock can take it, or some other call     *)
(* holds a lock and is not itself waiting for one: concurrent calls never  *)
(* deadlock on the lock registry.                                          *)
(***************************************************************************)
C18_AtMostOneLockNoDeadlock ==
    /\ \A p \in Callers :
          /\ Cardinality(HeldBy(p)) <= 1
          /\ WaitsForLock(p) => HeldBy(p) = {}
          /\ Returned(p) => HeldBy(p) = {}
          /\ ~Started(p) => HeldBy(p) = {}
    /\ \A q \in Callers :
          WaitsForLock(q) =>
              \/ \E h \in Callers \ {q} : HeldBy(h) # {} /\ ~WaitsForLock(h)
              \/ ENABLED Step(q)

\* One call returned the mount error, another returned the task's error
\* after its compensating unmount.
C18_Witness ==
    \E p, q \in Callers :
        /\ Returned(p)
        /\ Returned(q)
        /\ ret[p] = ErrMount
        /\ ret[q] = ErrTask
        /\ CountEv(trace[q], UnmountOps) = 1

\* p and q are calls on volumes of the same type and name in different pools.
SameNameOtherPool(p, q) == SameTypeAndName(p, q) /\ vol[p].pool # vol[q].pool

(***************************************************************************)
(* C20. Calls on two volumes of the same type and name in different pools  *)
(* take the same named locks: the lock each takes first is the same lock,  *)
(* and so is the lock each takes for its unmount.  At most one of them is  *)
(* between taking the mount lock and releasing it, and at most one between *)
(* taking the umount lock and releasing it.                                *)
(***************************************************************************)
C20_LocksIgnorePool ==
    \A p, q \in Callers :
        SameNameOtherPool(p, q) =>
            /\ \A i \in Positions(trace[p], {"lock"}), j \in Positions(trace[q], {"lock"}) :
                  (i = 2) = (j = 2) => trace[p][i].arg = trace[q][j].arg
            /\ ~(pc[p] \in {"mounting", "mountReturned"} /\ pc[q] \in {"mounting", "mountReturned"})
            /\ ~(pc[p] \in {"unmounting", "unmountReturned"}
                 /\ pc[q] \in {"unmounting", "unmountReturned"})

\* A call on one pool's volume is inside the mount call while a call on the
\* volume of the same type and name in the other pool waits for the mount lock.
C20_Witness ==
    \E p, q \in Callers :
        /\ SameNameOtherPool(p, q)
        /\ InMountCall(p)
        /\ pc[q] = "lockMount"
        /\ HeldBy(p) # {}

\* Every call that was started returns.
C19_Terminates == \A p \in Callers : Started(p) ~> Returned(p)

\* A call that cannot get its lock is kept out by a call on the same
\* (volume type, volume name), never by a call on another volume.
C19_BlockedOnlyBySameName ==
    \A q \in Callers :
        (WaitsForLock(q) /\ ~ENABLED Step(q)) =>
            \E p \in Callers : SameTypeAndName(p, q) /\ HeldBy(p) # {}

\* While the mount call of p is pending, no other call on the same
\* (volume type, volume name) returns.
C19_NoReturnWhileMountPending ==
    \A p, q \in Callers :
        (SameTypeAndName(p, q) /\ InMountCall(p) /\ InMountCall(p)') =>
            (Returned(q)' => Returned(q))

\* While the mount call of p is pending, a call on the same (volume type,
\* volume name) that waits for the mount lock keeps waiting.
C19_WaiterStaysBlocked ==
    \A p, q \in Callers :
        (SameTypeAndName(p, q) /\ InMountCall(p) /\ InMountCall(p)' /\ pc[q] = "lockMount") =>
            pc'[q] = "lockMount"

=============================================================================
